---- MODULE Spec2Model ----
(***************************************************************************)
(* Model of static/script.js: the submit handler of the analysis form and  *)
(* pollStatus, the timer-driven status poll loop.                          *)
(*                                                                         *)
(* Every submit event gets an index (a "loop"); the handler of a submit    *)
(* event runs up to its first await, and each await is resumed by an       *)
(* action of its own, so that timer callbacks and responses interleave as  *)
(* they do on the browser's event loop.  A continuation after an await is  *)
(* a microtask: it runs to its next await without interruption.            *)
(***************************************************************************)
EXTENDS Integers, Sequences, FiniteSets, Bags, TLC

\* ---------------------------------------------------------------- bounds
MaxSubmits  == 2    \* submit events in one page session
MaxInFlight == 2    \* status queries that await an answer at one time
MaxLen      == 4    \* characters typed into the comparison_urls field

\* ------------------------------------------------------ program constants
Interval == 2000                       \* setInterval delay, in ms
ClockStep == Interval                  \* granularity of the clock

Loops == 1..MaxSubmits

\* ------------------------------------------------------------- JS values
Str(s)    == [kind |-> "string", repr |-> s]
Num(d)    == [kind |-> "number", repr |-> d]
Undefined == [kind |-> "undefined", repr |-> "undefined"]

\* String(v), the conversion a template literal applies to ${v}
ToStr(v) == v.repr

\* v === 'literal'
StrictEq(v, lit) == v.kind = "string" /\ v.repr = lit

\* --------------------------------------------------------- display texts
\* a handler that announces the task without the dots
TaskStartedTextPlain == "Task started"

TaskStartedText == "Task started..."
CompletedText   == "Analysis Completed!"
ResultsNotice   == "Check your analysis results in server logs or API response."
InitialText     == ""

CurrentTaskText(status) == "Current Task: " \o ToStr(status)

\* a comparison that also takes a failure label for the end of the task
IsTerminalOrFailed(status) ==
    StrictEq(status, "Analysis Completed") \/ StrictEq(status, "Failed")

\* data.status === 'Analysis Completed'
IsTerminal(status) == StrictEq(status, "Analysis Completed")

\* the URL of a status query
ResultsUrl(id) == "/results/" \o ToStr(id)

\* ------------------------------------------ comparison_urls (line 5)
\* strings of the form are sequences of one-character strings
IsSpace(c) == c \in {" ", "\t", "\n"}

RECURSIVE Split(_)
\* s.split(',')
Split(s) ==
    IF \A i \in 1..Len(s) : s[i] # ","
    THEN <<s>>
    ELSE LET i == CHOOSE j \in 1..Len(s) :
                      s[j] = "," /\ \A k \in 1..(j-1) : s[k] # ","
         IN  <<SubSeq(s, 1, i-1)>> \o Split(SubSeq(s, i+1, Len(s)))

RECURSIVE TrimStart(_)
TrimStart(s) == IF s # <<>> /\ IsSpace(Head(s)) THEN TrimStart(Tail(s)) ELSE s

RECURSIVE TrimEnd(_)
TrimEnd(s) ==
    IF s # <<>> /\ IsSpace(s[Len(s)]) THEN TrimEnd(SubSeq(s, 1, Len(s)-1)) ELSE s

\* a trim of the leading whitespace only
TrimLeading(s) == TrimStart(s)

\* url.trim()
Trim(s) == TrimEnd(TrimStart(s))

RECURSIVE MapTrim(_)
MapTrim(ps) == IF ps = <<>> THEN <<>> ELSE <<Trim(Head(ps))>> \o MapTrim(Tail(ps))

RECURSIVE FilterTruthy(_)
\* .filter(url => url): the empty string is the only falsy string
FilterTruthy(ps) ==
    IF ps = <<>> THEN <<>>
    ELSE IF Head(ps) = <<>> THEN FilterTruthy(Tail(ps))
         ELSE <<Head(ps)>> \o FilterTruthy(Tail(ps))

ParseComparisonUrls(s) == FilterTruthy(MapTrim(Split(s)))

\* the values the form fields take in this model
MainUrls   == {"http://x"}
FormInputs == {<<>>, <<"a", ",", " ", "b">>}

\* every string of at most MaxLen characters typed into comparison_urls, and
\* the string "a, b ,, c"
Alphabet == {"a", "b", ",", " "}
TypedInputs ==
    UNION {[1..n -> Alphabet] : n \in 0..MaxLen}
        \cup {<<"a", ",", " ", "b", " ", ",", ",", " ", "c">>}

\* ------------------------------------------------ the server, a black box
NoBody      == [json |-> FALSE, status |-> Undefined]
JsonBody(s) == [json |-> TRUE, status |-> s]

Statuses == {Str("Running"), Str("Analysis Completed"), Str("Failed")}

\* a response to a status query, as response.json() finds it: the HTTP code,
\* which the callback never reads, and the body
Response(c, b) == [code |-> c, body |-> b]

\* the responses of GET /results/{task_id}: a status, a body that is not
\* JSON, an error in JSON that has no status, an error page
Responses ==
    {Response(200, JsonBody(st)) : st \in Statuses}
        \cup {Response(200, NoBody), Response(404, JsonBody(Undefined)),
              Response(500, NoBody)}

\* the response once the task is finished
FinishedResponses == {Response(200, JsonBody(Str("Analysis Completed")))}

\* the answers of a server whose task is queued, then runs, then completes
Script == <<JsonBody(Str("Queued")), JsonBody(Str("Running")),
            JsonBody(Str("Analysis Completed"))>>

AllResponses == Responses \cup {Response(200, Script[n]) : n \in 1..Len(Script)}

\* how fetch settles: with a rejection or with a response
FetchOutcomes == {"error", "response"}

\* the task_id in the response to the l-th submission: the server numbers its
\* tasks, every second response has no task_id, every third has a string
Digits == <<"1", "2", "3", "4", "5", "6", "7", "8", "9">>
TaskIdOf(l) ==
    IF l % 2 = 0 THEN Undefined
    ELSE IF l % 3 = 0 THEN Str("task-" \o Digits[l])
    ELSE Num(Digits[l])

NoTaskBody      == [json |-> FALSE, task_id |-> Undefined]
TaskBody(id)    == [json |-> TRUE, task_id |-> id]

\* what POST /analyze can produce for the l-th submission
AnalyzeOutcomes(l) ==
    {[net |-> "error", code |-> 0, body |-> NoTaskBody],
     [net |-> "ok", code |-> 200, body |-> TaskBody(TaskIdOf(l))],
     [net |-> "ok", code |-> 500, body |-> NoTaskBody]}

\* ------------------------------------------------------------------ state
VARIABLES
    handler,      \* handler[l]: position of the submit handler of event l
    request,      \* request[l]: the comparison_urls field as read from the
                  \*             form, and the body of the POST /analyze in flight
    postBody,     \* postBody[l]: response body being parsed by response.json()
    taskId,       \* taskId[l]: the taskId captured by pollStatus
    interval,     \* interval[l]: TRUE while the timer of the loop is armed
    elapsed,      \* elapsed[l]: ms since the timer was armed or last fired
    inflight,     \* inflight[l]: the bag of the timer callbacks of the loop
                  \*              that are suspended at an await
    finished,     \* TRUE while the server answers every status query with
                  \* "Analysis Completed"
    plan,         \* plan[l]: the answers the server has decided to give to
                  \* the next status queries of loop l (<<>>: not decided)
    statusText,   \* textContent of #statusText
    resultsText,  \* textContent of #results
    completions,  \* completions[l]: runs of the completion branch of loop l
    pollFailed    \* the loop whose status query was the last to be rejected,
                  \* to have a body that is not JSON or a non-2xx code (0: none)

vars == <<handler, request, postBody, taskId, interval, elapsed, inflight,
          finished, plan, statusText, resultsText, completions, pollFailed>>

NoRequest ==
    [raw |-> <<>>, main_url |-> "", comparison_urls |-> <<>>, sent |-> FALSE]

Init ==
    /\ handler = [l \in Loops |-> "idle"]
    /\ request = [l \in Loops |-> NoRequest]
    /\ postBody = [l \in Loops |-> NoTaskBody]
    /\ taskId = [l \in Loops |-> Undefined]
    /\ interval = [l \in Loops |-> FALSE]
    /\ elapsed = [l \in Loops |-> 0]
    /\ inflight = [l \in Loops |-> EmptyBag]
    /\ finished = FALSE
    /\ plan = [l \in Loops |-> <<>>]
    /\ statusText = InitialText
    /\ resultsText = InitialText
    /\ completions = [l \in Loops |-> 0]
    /\ pollFailed = 0

Min(a, b) == IF a < b THEN a ELSE b

\* ------------------------------------------------------ the submit handler
\* a handler that arms the poll timer before it awaits fetch('/analyze')
SubmitWithEarlyPoll(l, main_url, raw) ==
    /\ handler[l] = "idle"
    /\ \A m \in Loops : m < l => handler[m] # "idle"
    /\ request' = [request EXCEPT ![l] =
                       [raw |-> raw, main_url |-> main_url,
                        comparison_urls |-> ParseComparisonUrls(raw),
                        sent |-> TRUE]]
    /\ handler' = [handler EXCEPT ![l] = "fetch"]
    /\ interval' = [interval EXCEPT ![l] = TRUE]
    /\ UNCHANGED <<postBody, taskId, elapsed, inflight, finished,
                   plan, statusText, resultsText, completions, pollFailed>>

\* lines 1-11: the submit event, up to the await of fetch('/analyze')
SubmitWith(l, main_url, raw) ==
    /\ handler[l] = "idle"
    /\ \A m \in Loops : m < l => handler[m] # "idle"
    /\ request' = [request EXCEPT ![l] =
                       [raw |-> raw, main_url |-> main_url,
                        comparison_urls |-> ParseComparisonUrls(raw),
                        sent |-> TRUE]]
    /\ handler' = [handler EXCEPT ![l] = "fetch"]
    /\ UNCHANGED <<postBody, taskId, interval, elapsed, inflight, finished,
                   plan, statusText, resultsText, completions, pollFailed>>

\* the submit event of a form filled with the values of this model
Submit(l) ==
    \E main_url \in MainUrls, raw \in FormInputs : SubmitWith(l, main_url, raw)

\* line 7: fetch('/analyze') settles; line 13 starts response.json()
AnalyzeResolve(l) ==
    /\ handler[l] = "fetch"
    /\ \E out \in AnalyzeOutcomes(l) :
          IF out.net = "error"
          THEN /\ handler' = [handler EXCEPT ![l] = "failed"]
               /\ UNCHANGED postBody
          ELSE /\ handler' = [handler EXCEPT ![l] = "json"]
               /\ postBody' = [postBody EXCEPT ![l] = out.body]
    /\ request' = [request EXCEPT ![l] = NoRequest]
    /\ UNCHANGED <<taskId, interval, elapsed, inflight, finished, plan,
                   statusText, resultsText, completions, pollFailed>>

\* a pollStatus that keeps one timer for the page and cancels the earlier one
pollStatusSingleTimer(l, id) ==
    /\ taskId' = [taskId EXCEPT ![l] = id]
    /\ interval' = [m \in Loops |-> m = l]
    /\ elapsed' = [elapsed EXCEPT ![l] = 0]
    /\ UNCHANGED inflight

\* lines 20-36: pollStatus(id) called for loop l; it arms the timer and
\* returns without a status query
pollStatus(l, id) ==
    /\ taskId' = [taskId EXCEPT ![l] = id]
    /\ interval' = [interval EXCEPT ![l] = TRUE]
    /\ elapsed' = [elapsed EXCEPT ![l] = 0]
    /\ UNCHANGED inflight

\* a parse that falls back to an empty object
ParsesLenient(body) == TRUE

\* line 13: response.json() fulfils only for a body that is JSON
Parses(body) == body.json

\* lines 13-17: response.json() settles; the rest of the handler runs
AnalyzeJson(l) ==
    /\ handler[l] = "json"
    /\ IF Parses(postBody[l])
       THEN /\ handler' = [handler EXCEPT ![l] = "polling"]
            /\ statusText' = TaskStartedText
            /\ pollStatus(l, postBody[l].task_id)
       ELSE /\ handler' = [handler EXCEPT ![l] = "failed"]
            /\ UNCHANGED <<statusText, taskId, interval, elapsed, inflight>>
    /\ postBody' = [postBody EXCEPT ![l] = NoTaskBody]
    /\ UNCHANGED <<request, finished, plan, resultsText, completions, pollFailed>>

\* ------------------------------------------------------------ the timer
\* a timer that also fires at once
TimerDueAtOnce(l) == elapsed[l] >= 0

\* setInterval(..., 2000): the callback is due one interval after the timer
\* was armed or after its previous run
TimerDue(l) == elapsed[l] >= Interval

\* time passes for every armed timer
Advance ==
    /\ \E l \in Loops : interval[l] /\ elapsed[l] < Interval
    /\ elapsed' = [l \in Loops |->
                      IF interval[l] THEN Min(elapsed[l] + ClockStep, Interval)
                      ELSE elapsed[l]]
    /\ UNCHANGED <<handler, request, postBody, taskId, interval, inflight,
                   finished, plan, statusText, resultsText, completions, pollFailed>>

\* the loops whose handler has called pollStatus
Polling == {l \in Loops : handler[l] = "polling"}

\* a URL built from one taskId shared by all loops, the latest one
QueryUrlShared(l) ==
    ResultsUrl(taskId[CHOOSE m \in Polling : \A n \in Polling : n <= m])

\* line 25: the URL fetched by the callback of loop l
QueryUrl(l) == ResultsUrl(taskId[l])

RECURSIVE PendingUpTo(_)
PendingUpTo(n) ==
    IF n = 0 THEN 0 ELSE BagCardinality(inflight[n]) + PendingUpTo(n - 1)

\* the status queries that await an answer, over all loops
Pending == PendingUpTo(MaxSubmits)

\* lines 24-25: the timer callback starts and awaits fetch(`/results/${taskId}`);
\* a server that has decided its next answer gives it to this query
Tick(l) ==
    /\ interval[l]
    /\ TimerDue(l)
    /\ Pending < MaxInFlight
    /\ inflight' = [inflight EXCEPT ![l] =
                       @ (+) SetToBag({[phase |-> "fetch", url |-> QueryUrl(l),
                                        planned |-> plan[l] # <<>>,
                                        body |-> IF plan[l] = <<>> THEN NoBody
                                                 ELSE Head(plan[l])]})]
    /\ plan' = [plan EXCEPT ![l] = IF @ = <<>> THEN @ ELSE Tail(@)]
    /\ elapsed' = [elapsed EXCEPT ![l] = 0]
    /\ UNCHANGED <<handler, request, postBody, taskId, interval, finished,
                   statusText, resultsText, completions, pollFailed>>

\* the callbacks of loop l that are suspended at an await
Callbacks(l) == BagToSet(inflight[l])

\* how the fetch of the pending query q can settle
FetchOutcomesOf(q) ==
    IF q.planned \/ finished THEN {"response"} ELSE FetchOutcomes

\* the responses the pending query q can have got
ResponsesOf(q) ==
    IF q.planned THEN {Response(200, q.body)}
    ELSE IF finished THEN FinishedResponses ELSE Responses

\* response.ok, which the callback never reads
Is2xx(code) == code >= 200 /\ code < 300

\* a callback that stops the timer when its query fails
IntervalAfterRejectionStopped(l) == FALSE

\* lines 24-35: no try/catch, a rejection leaves the timer as it is
IntervalAfterRejection(l) == interval[l]

\* line 25: the fetch of callback q settles with out; a rejection ends the
\* callback, otherwise line 26 starts response.json()
FetchResolve(l, q, out) ==
    /\ q \in Callbacks(l)
    /\ q.phase = "fetch"
    /\ out \in FetchOutcomesOf(q)
    /\ IF out = "error"
       THEN /\ inflight' = [inflight EXCEPT ![l] = @ (-) SetToBag({q})]
            /\ interval' = [interval EXCEPT ![l] = IntervalAfterRejection(l)]
            /\ elapsed' = [elapsed EXCEPT ![l] =
                              IF IntervalAfterRejection(l) THEN @ ELSE 0]
            /\ pollFailed' = l
       ELSE /\ inflight' = [inflight EXCEPT ![l] =
                               (@ (-) SetToBag({q}))
                                   (+) SetToBag({[q EXCEPT !.phase = "json"]})]
            /\ UNCHANGED <<interval, elapsed, pollFailed>>
    /\ UNCHANGED <<handler, request, postBody, taskId, finished, plan,
                   statusText, resultsText, completions>>

\* a callback without clearInterval
IntervalAfterKept(l, status) == interval[l]

\* a callback that clears the timer after its first answer
IntervalAfterOneShot(l, status) == FALSE

\* line 29: the timer state after a response with this status was processed
IntervalAfter(l, status) == IF IsTerminal(status) THEN FALSE ELSE interval[l]

\* lines 30 and 33: the status text written for this status
StatusTextFor(status) ==
    IF IsTerminal(status) THEN CompletedText ELSE CurrentTaskText(status)

\* an else branch that empties the results region
ResultsTextAfterCleared(status) ==
    IF IsTerminal(status) THEN ResultsNotice ELSE InitialText

\* line 31: the results text after this status was processed
ResultsTextAfter(status) ==
    IF IsTerminal(status) THEN ResultsNotice ELSE resultsText

\* lines 26-34: response.json() of callback q settles for this response; a
\* rejection ends the callback, otherwise the branch on data.status runs
JsonResolve(l, q, response) ==
    /\ q \in Callbacks(l)
    /\ q.phase = "json"
    /\ response \in ResponsesOf(q)
    /\ inflight' = [inflight EXCEPT ![l] = @ (-) SetToBag({q})]
    /\ IF response.body.json
       THEN LET status == response.body.status IN
            /\ interval' = [interval EXCEPT ![l] = IntervalAfter(l, status)]
            /\ elapsed' = [elapsed EXCEPT ![l] =
                              IF IntervalAfter(l, status) THEN @ ELSE 0]
            /\ statusText' = StatusTextFor(status)
            /\ resultsText' = ResultsTextAfter(status)
            /\ completions' = [completions EXCEPT ![l] =
                                  IF IsTerminal(status) THEN @ + 1 ELSE @]
            /\ pollFailed' = IF Is2xx(response.code) THEN pollFailed ELSE l
       ELSE /\ pollFailed' = l
            /\ interval' = [interval EXCEPT ![l] = IntervalAfterRejection(l)]
            /\ elapsed' = [elapsed EXCEPT ![l] =
                              IF IntervalAfterRejection(l) THEN @ ELSE 0]
            /\ UNCHANGED <<statusText, resultsText, completions>>
    /\ UNCHANGED <<handler, request, postBody, taskId, finished, plan>>

\* the fetch of a pending query of loop l settles
FetchSettles(l) ==
    \E q \in Callbacks(l), out \in FetchOutcomes : FetchResolve(l, q, out)

\* the body of an answer to a query of loop l has been read
BodyRead(l) ==
    \E q \in Callbacks(l), response \in AllResponses : JsonResolve(l, q, response)

\* the task finishes on the server (or the server starts over)
ServerChange ==
    /\ finished' = ~finished
    /\ UNCHANGED <<handler, request, postBody, taskId, interval, elapsed,
                   inflight, plan, statusText, resultsText, completions, pollFailed>>

Next ==
    \/ \E l \in Loops : Submit(l)
    \/ \E l \in Loops : AnalyzeResolve(l)
    \/ \E l \in Loops : AnalyzeJson(l)
    \/ Advance
    \/ \E l \in Loops : Tick(l)
    \/ \E l \in Loops : FetchSettles(l)
    \/ \E l \in Loops : BodyRead(l)

Spec == Init /\ [][Next]_vars

\* a server whose task is queued, then runs, then completes, for every loop
ScriptInit ==
    /\ handler = [l \in Loops |-> "idle"]
    /\ request = [l \in Loops |-> NoRequest]
    /\ postBody = [l \in Loops |-> NoTaskBody]
    /\ taskId = [l \in Loops |-> Undefined]
    /\ interval = [l \in Loops |-> FALSE]
    /\ elapsed = [l \in Loops |-> 0]
    /\ inflight = [l \in Loops |-> EmptyBag]
    /\ finished = FALSE
    /\ plan = [l \in Loops |-> Script]
    /\ statusText = InitialText
    /\ resultsText = InitialText
    /\ completions = [l \in Loops |-> 0]
    /\ pollFailed = 0

ScriptSpec == ScriptInit /\ [][Next]_vars

\* a page session with one submit event, and a server whose task finishes
NextOne ==
    \/ Submit(1)
    \/ AnalyzeResolve(1)
    \/ AnalyzeJson(1)
    \/ Advance
    \/ Tick(1)
    \/ FetchSettles(1)
    \/ BodyRead(1)
    \/ ServerChange

\* the event loop runs a due timer callback, time passes, and pending
\* requests are answered and pending bodies read
Fairness ==
    /\ WF_vars(Advance)
    /\ WF_vars(Tick(1))
    /\ WF_vars(FetchSettles(1))
    /\ WF_vars(BodyRead(1))

LiveSpec == Init /\ [][NextOne]_vars /\ Fairness

\* one submit event of a form with any typed comparison_urls
FormNext ==
    \/ \E main_url \in MainUrls, raw \in TypedInputs : SubmitWith(1, main_url, raw)
    \/ AnalyzeResolve(1)
    \/ AnalyzeJson(1)

FormSpec == Init /\ [][FormNext]_vars

\* ================================================================ claims

\* loop l issues a status query in this step
NewQuery(l) == BagCardinality(inflight'[l]) > BagCardinality(inflight[l])

\* a callback of loop l ends in this step
Settles(l) == BagCardinality(inflight'[l]) < BagCardinality(inflight[l])

\* the callback q of loop l processes the parsed body of this response in
\* this step
Processes(l, q, response) == response.body.json /\ JsonResolve(l, q, response)

\* the callback q of loop l ends with a rejection in this step: of fetch, or
\* of response.json()
Rejects(l, q) ==
    \/ FetchResolve(l, q, "error")
    \/ \E response \in AllResponses :
           ~response.body.json /\ JsonResolve(l, q, response)

InProgressTexts ==
    {"Current Task: Queued", "Current Task: Running", "Current Task: Failed",
     "Current Task: undefined"}

\* C1: once a status answer "Analysis Completed" was processed by a loop, that
\* loop issues no further status query, in any later step.
C1_NoQueryAfterCompleted ==
    [][\A l \in Loops : completions[l] > 0 => ~NewQuery(l)]_vars

C1_Witness ==
    \E l \in Loops : completions[l] = 1 /\ ~interval[l] /\ inflight[l] = EmptyBag
                     /\ statusText = CompletedText

\* C2: once a loop has set the display to the completion text, no later
\* callback of that loop sets it to an in-progress text.
C2_DoneIsTerminal ==
    [][\A l \in Loops :
          (completions[l] > 0 /\ Settles(l)) =>
              \A q \in Callbacks(l), response \in AllResponses :
                  Processes(l, q, response)
                      => statusText' \notin InProgressTexts]_vars

\* the planned answers of loop l that its callbacks have processed
Shown(l) ==
    (Len(Script) - Len(plan[l]))
        - Cardinality({q \in Callbacks(l) : q.planned})

\* C3: when the server answers the successive queries of a loop with
\* "Queued", "Running", "Analysis Completed", the n-th display update of the
\* loop shows the n-th answer: "Queued", then "Running", then the completion.
C3_UpdatesInOrder ==
    [][\A l \in Loops :
          Settles(l) =>
              \A q \in Callbacks(l), response \in AllResponses :
                  (Processes(l, q, response) /\ q.planned)
                      => statusText' =
                             <<"Current Task: Queued", "Current Task: Running",
                               "Analysis Completed!">>[Shown(l) + 1]]_vars

\* C4: the completion branch runs at most once per loop.
C4_CompletionOnce == \A l \in Loops : completions[l] <= 1

\* C5: pollStatus issues no query when it is invoked; a query is issued only
\* when a full interval has passed since the invocation or since the previous
\* query of the loop, and issuing it restarts the count.
C5_Cadence ==
    [][\A l \in Loops :
          /\ (~interval[l] /\ interval'[l]) => (~NewQuery(l) /\ elapsed'[l] = 0)
          /\ NewQuery(l) => (elapsed[l] >= 2000 /\ elapsed'[l] = 0)
          /\ (interval[l] /\ interval'[l] /\ ~NewQuery(l))
                 => elapsed'[l] >= elapsed[l]]_vars

C5_Witness ==
    \E l \in Loops : BagCardinality(inflight[l]) = 2 /\ interval[l]
                     /\ elapsed[l] = 0

\* C6: while a loop has processed no answer "Analysis Completed", its timer
\* stays armed, whatever it was answered and however often, and a due timer
\* with a free connection can issue a query; and when from some time on the
\* server answers every query with "Analysis Completed", every armed loop
\* eventually runs the completion branch.
C6_PollsUntilCompleted ==
    /\ [](\A l \in Loops :
             (handler[l] = "polling" /\ completions[l] = 0)
                 => (interval[l] /\ (elapsed[l] >= 2000 /\ Pending < MaxInFlight
                                        => ENABLED Tick(l))))
    /\ (<>[]finished) =>
           \A l \in Loops : [](interval[l] => <>(completions[l] > 0))

\* a loop that completed after a failed status query
C6_Witness ==
    \E l \in Loops : completions[l] = 1 /\ pollFailed = l /\ ~interval[l]
                     /\ finished /\ inflight[l] = EmptyBag
                     /\ statusText = CompletedText

\* C7: a submission whose POST is rejected or whose response is not JSON is
\* aborted: the step leaves the displays as they are, the timer is never
\* armed and no status query is ever issued for it.
C7_FailedSubmissionAborts ==
    [][\A l \in Loops :
          /\ (handler[l] = "json" /\ ~postBody[l].json /\ handler'[l] # "json")
                 => (handler'[l] = "failed" /\ statusText' = statusText)
          /\ (handler[l] # "failed" /\ handler'[l] = "failed")
                 => (statusText' = statusText /\ resultsText' = resultsText)
          /\ handler[l] = "failed" => handler'[l] = "failed"
          /\ handler'[l] = "failed" => (~interval'[l] /\ inflight'[l] = EmptyBag)]_vars

C7_Witness ==
    \E l, m \in Loops : handler[l] = "failed" /\ handler[m] = "polling"
                        /\ statusText # InitialText

\* C8 as stated, for the loop whose status query failed last (rejected, not
\* JSON, or non-2xx): after the failure the loop issues no further status
\* query and its callbacks write neither display.
C8_FailureHaltsPolling ==
    [][\A l \in Loops :
          pollFailed = l =>
              /\ ~NewQuery(l)
              /\ Settles(l) =>
                    \A q \in Callbacks(l), response \in AllResponses :
                        Processes(l, q, response)
                            => /\ statusText' = statusText
                               /\ resultsText' = resultsText]_vars

\* C8 as amended: a status query that is rejected or whose body is not JSON
\* ends only its own callback, which writes neither display and leaves the
\* timer as it is: a timer that was armed stays armed and polling goes on.
\* A non-2xx answer with a JSON body is processed like any other.
C8_FailureEndsOnlyThatCallback ==
    [][\A l \in Loops :
          Settles(l) =>
              \A q \in Callbacks(l) :
                  /\ Rejects(l, q) => /\ statusText' = statusText
                                      /\ resultsText' = resultsText
                                      /\ interval'[l] = interval[l]
                                      /\ completions'[l] = completions[l]
                                      /\ pollFailed' = l
                  /\ \A response \in AllResponses :
                        (Processes(l, q, response) /\ response.code >= 300)
                            => /\ statusText' = "Current Task: "
                                                   \o response.body.status.repr
                               /\ interval'[l] = interval[l]]_vars

\* a loop that went on polling after a failed status query
C8_Witness ==
    \E l \in Loops : pollFailed = l /\ interval[l] /\ inflight[l] # EmptyBag
                     /\ statusText = "Current Task: undefined"

\* C9: every status query of a loop targets /results/ followed by the task_id
\* of the submission response that started the loop, and the identifier of a
\* loop never changes.
C9_SameTaskId ==
    [][\A l \in Loops :
          /\ (handler[l] = "json" /\ handler'[l] = "polling")
                 => taskId'[l] = postBody[l].task_id
          /\ handler[l] = "polling" => taskId'[l] = taskId[l]
          /\ \A q \in BagToSet(inflight'[l]) :
                 q.url = "/results/" \o taskId'[l].repr]_vars

C9_Witness ==
    \E l, m \in Loops :
        /\ taskId[l] # taskId[m]
        /\ inflight[l] # EmptyBag /\ inflight[m] # EmptyBag
        /\ \E q \in Callbacks(l) : q.url = "/results/1"
        /\ \E q \in Callbacks(m) : q.url = "/results/undefined"

\* C10: an answer whose status is not exactly "Analysis Completed" (another
\* string or no status at all) leaves the timer as it is, is shown as the
\* in-progress label and does not run the completion branch; the literal
\* clears the timer.
C10_OnlyLiteralIsTerminal ==
    [][\A l \in Loops :
          Settles(l) =>
              \A q \in Callbacks(l), response \in AllResponses :
                  Processes(l, q, response) =>
                      IF response.body.status = Str("Analysis Completed")
                      THEN ~interval'[l] /\ statusText' = "Analysis Completed!"
                      ELSE /\ interval'[l] = interval[l]
                           /\ statusText' = "Current Task: "
                                               \o response.body.status.repr
                           /\ statusText' \in InProgressTexts
                           /\ resultsText' = resultsText
                           /\ completions'[l] = completions[l]]_vars

C10_Witness ==
    \E l \in Loops : interval[l] /\ completions[l] = 0
                     /\ statusText = "Current Task: Failed"

\* ---- the reference result for comparison_urls
\* the positions that delimit the pieces of s: its commas and its two ends
Boundaries(s) == {0, Len(s) + 1} \cup {i \in 1..Len(s) : s[i] = ","}

\* the first boundary of s after b
NextBoundary(s, b) ==
    CHOOSE c \in Boundaries(s) :
        c > b /\ \A d \in Boundaries(s) : d > b => c <= d

\* a piece without its leading and trailing whitespace
Stripped(p) ==
    LET solid == {i \in 1..Len(p) : p[i] \notin {" ", "\t", "\n"}}
    IN  IF solid = {} THEN <<>>
        ELSE SubSeq(p, CHOOSE i \in solid : \A j \in solid : i <= j,
                       CHOOSE i \in solid : \A j \in solid : i >= j)

RECURSIVE ReferenceFrom(_, _)
\* the non-empty stripped pieces of s that start after boundary b, in order
ReferenceFrom(s, b) ==
    IF b > Len(s) THEN <<>>
    ELSE LET p == Stripped(SubSeq(s, b + 1, NextBoundary(s, b) - 1))
         IN  (IF p = <<>> THEN <<>> ELSE <<p>>)
                 \o ReferenceFrom(s, NextBoundary(s, b))

Reference(s) == ReferenceFrom(s, 0)

\* C11: for every typed string, the comparison_urls put into the submission
\* is the reference result: the pieces between commas, stripped of leading and
\* trailing whitespace, without the empty ones, in input order, duplicates
\* kept; the empty string and strings of commas and blanks give the empty list.
C11_ParsesComparisonUrls ==
    \A l \in Loops :
        request[l].sent =>
            /\ request[l].comparison_urls = Reference(request[l].raw)
            /\ (\A i \in 1..Len(request[l].raw) : request[l].raw[i] \in {",", " "})
                   => request[l].comparison_urls = <<>>

\* the submission of "a, b ,, c" is in flight
C11_Witness ==
    /\ handler[1] = "fetch"
    /\ request[1].sent
    /\ request[1].raw = <<"a", ",", " ", "b", " ", ",", ",", " ", "c">>
    /\ request[1].comparison_urls = << <<"a">>, <<"b">>, <<"c">> >>

\* the status queries of loop l whose fetch has not settled
Unanswered(l) ==
    LET qs == {q \in Callbacks(l) : q.phase = "fetch"}
    IN  BagCardinality([q \in qs |-> inflight[l][q]])

RECURSIVE UnansweredUpTo(_)
UnansweredUpTo(n) == IF n = 0 THEN 0 ELSE Unanswered(n) + UnansweredUpTo(n - 1)

\* C12: at most one network call is in flight at any time: the requests
\* (POST /analyze or GET /results/{task_id}) that were issued and whose fetch
\* has not settled are at most one.
C12_AtMostOneInFlight ==
    UnansweredUpTo(MaxSubmits)
        + Cardinality({l \in Loops : handler[l] = "fetch"}) <= 1

\* C13 as stated: the status text and the results text are changed only by
\* the poll callback, by no other action of the program.
C13_OnlyPollWrites ==
    [][(statusText' # statusText \/ resultsText' # resultsText)
          => \E l \in Loops : BodyRead(l)]_vars

\* C13 as amended: the results text is changed only by the poll callback; the
\* status text is changed only by the poll callback and by the submit
\* handler, which writes 'Task started...' when the submission response has
\* been parsed (also over a text that a poll callback wrote).
C13_PollAndSubmitWrite ==
    [][/\ statusText' # statusText
            => \E l \in Loops :
                   \/ BodyRead(l)
                   \/ AnalyzeJson(l) /\ statusText' = "Task started..."
       /\ resultsText' # resultsText => \E l \in Loops : BodyRead(l)]_vars

\* the submit handler of a later submission wrote over the completion text
C13_Witness ==
    \E l, m \in Loops :
        /\ completions[l] > 0
        /\ resultsText = ResultsNotice
        /\ handler[m] = "polling" /\ inflight[m] = EmptyBag /\ completions[m] = 0
        /\ statusText = "Task started..."

\* C14: the timer of a submission is armed, and 'Task started...' displayed,
\* in the step that has parsed the response to its POST /analyze, not before;
\* a submission whose response has not been parsed has no armed timer and no
\* status query, and status queries are issued and answers processed only for
\* a submission that has displayed 'Task started...'.
C14_PollsAfterCreation ==
    /\ [](\A l \in Loops :
             handler[l] # "polling"
                 => (~interval[l] /\ inflight[l] = EmptyBag /\ completions[l] = 0))
    /\ [][\A l \in Loops :
             /\ (~interval[l] /\ interval'[l])
                    => /\ handler[l] = "json" /\ postBody[l].json
                       /\ handler'[l] = "polling"
                       /\ taskId'[l] = postBody[l].task_id
                       /\ statusText' = "Task started..."
             /\ (handler[l] # "polling" /\ handler'[l] = "polling")
                    => (statusText' = "Task started..." /\ interval'[l])
             /\ (NewQuery(l) \/ Settles(l)) => handler[l] = "polling"]_vars

\* a poll-driven text of one task is shown while the POST of a later
\* submission is not yet answered
C14_Witness ==
    \E l, m \in Loops :
        /\ handler[l] = "polling" /\ interval[l]
        /\ statusText = "Current Task: Running"
        /\ handler[m] = "fetch" /\ ~interval[m] /\ inflight[m] = EmptyBag

\* C15: the results region holds the results notice only if some answer
\* "Analysis Completed" has been processed; it changes only in a step that
\* runs the completion branch, which writes the notice; processing an answer
\* with any other status neither writes nor clears it.
C15_ResultsOnlyOnCompletion ==
    /\ [](/\ resultsText \in {"", ResultsNotice}
          /\ resultsText = ResultsNotice
                 => \E l \in Loops : completions[l] > 0)
    /\ [][/\ resultsText' # resultsText
                => /\ resultsText' = ResultsNotice
                   /\ \E l \in Loops : completions'[l] = completions[l] + 1
          /\ \A l \in Loops :
                Settles(l) =>
                    \A q \in Callbacks(l), response \in AllResponses :
                        (/\ Processes(l, q, response)
                         /\ response.body.status # Str("Analysis Completed"))
                            => resultsText' = resultsText]_vars

\* an in-progress answer was processed after a completion and the notice is
\* still there
C15_Witness ==
    /\ resultsText = ResultsNotice
    /\ statusText = "Current Task: Running"
    /\ \E l \in Loops : completions[l] = 1

\* C16: a submission that succeeds arms its own timer and leaves the timers,
\* pending queries and task ids of the other loops as they are; the timer of a
\* loop is cleared only in a step in which a callback of that loop runs the
\* completion branch, and that step leaves the other loops as they are.
C16_LoopsAreIndependent ==
    [][\A l \in Loops :
          /\ (~interval[l] /\ interval'[l])
                 => /\ handler[l] = "json" /\ handler'[l] = "polling"
                    /\ \A m \in Loops \ {l} :
                          /\ interval'[m] = interval[m]
                          /\ inflight'[m] = inflight[m]
                          /\ taskId'[m] = taskId[m]
          /\ (interval[l] /\ ~interval'[l])
                 => /\ Settles(l)
                    /\ completions'[l] = completions[l] + 1
                    /\ statusText' = "Analysis Completed!"
          /\ completions'[l] # completions[l]
                 => \A m \in Loops \ {l} :
                       /\ interval'[m] = interval[m]
                       /\ inflight'[m] = inflight[m]
                       /\ taskId'[m] = taskId[m]
                       /\ completions'[m] = completions[m]]_vars

\* one task has completed and the timer of another goes on and has issued a
\* query
C16_Witness ==
    \E l, m \in Loops :
        /\ completions[l] = 1 /\ ~interval[l] /\ inflight[l] = EmptyBag
        /\ handler[m] = "polling" /\ interval[m] /\ completions[m] = 0
        /\ inflight[m] # EmptyBag
        /\ statusText = "Analysis Completed!"

====
